---------------------------- MODULE Spec2Model ----------------------------
(***************************************************************************)
(* The transposition tables of src/src/lib/table.rs:                       *)
(*   TranspositionTable           (single-threaded, set-associative)       *)
(*   ConcurrentTranspositionTable (seqlock readers, one global write lock) *)
(*   ConcurrentTranspositionTableHandle (per-client statistics)            *)
(*                                                                         *)
(* A 64-bit signature is kept at its full width as four 16-bit limbs,      *)
(* most significant first, so that `base + j` can overflow as it does in   *)
(* the code.                                                               *)
(***************************************************************************)
EXTENDS Integers, Sequences, FiniteSets

(***************************************************************************)
(* Bounds of the model.                                                    *)
(***************************************************************************)
\* associativity N (typenum parameter of both tables)
N == 2
\* operations issued on the single-threaded table
MaxOps == 4
\* lookup/store calls issued through handles on the concurrent table
MaxCalls == 3

(***************************************************************************)
(* u64 / usize arithmetic on limbs.                                        *)
(***************************************************************************)
LimbBase == 65536

U64(n) == <<0, 0, n \div LimbBase, n % LimbBase>>

U64Max == <<LimbBase - 1, LimbBase - 1, LimbBase - 1, LimbBase - 1>>

\* the four limb sums of h + j with their carries, j < LimbBase
AddLimbs(h, j) ==
    LET s4 == h[4] + j
        s3 == h[3] + (s4 \div LimbBase)
        s2 == h[2] + (s3 \div LimbBase)
        s1 == h[1] + (s2 \div LimbBase)
    IN  <<s1, s2, s3, s4>>

\* base + j in usize arithmetic without overflow checks: wraps modulo 2^64
WrappingAdd(h, j) ==
    LET s == AddLimbs(h, j)
    IN  <<s[1] % LimbBase, s[2] % LimbBase, s[3] % LimbBase, s[4] % LimbBase>>

\* base + j exceeds usize::MAX
AddOverflows(h, j) == AddLimbs(h, j)[1] >= LimbBase

\* x % m for a usize x, m >= 1
ModUsize(x, m) ==
    LET r1 == x[1] % m
        r2 == (r1 * LimbBase + x[2]) % m
        r3 == (r2 * LimbBase + x[3]) % m
    IN  (r3 * LimbBase + x[4]) % m

\* (h & 0xff) as u8
LowByte(h) == h[4] % 256

\* the mathematical (h + j) mod m, with no 64-bit wrap
MathSlot(h, j, m) == (ModUsize(h, m) + j) % m

(***************************************************************************)
(* Records (trait Entry) and statistics.                                   *)
(***************************************************************************)
\* signatures the clients use; all map to base slot 1 for len 7 and len 49:
\* 2304 has low byte 0 (the tag of a fresh slot), 4607 and 2^64 - 1 share low
\* byte 255, and (2^64 - 1) + j overflows for every j >= 1
Sigs == {U64(2304), U64(4607), U64Max}

\* E::default(): an invalid record
DefaultEntry == [hash |-> U64(0), valid |-> FALSE, depth |-> 0]

\* the quality values stored records carry
Depths == {1, 2}

\* the valid records handed to store
ValidEntries == [hash : Sigs, valid : {TRUE}, depth : Depths]

hash(e) == e.hash

valid(e) == e.valid

\* Entry::better_than: the deeper search wins
better_than(a, b) == a.depth > b.depth

\* Stats::default()
ZeroStats == [lookups |-> 0, hits |-> 0, stores |-> 0]

merge(a, b) ==
    [lookups |-> a.lookups + b.lookups,
     hits    |-> a.hits + b.hits,
     stores  |-> a.stores + b.stores]


(***************************************************************************)
(* State.                                                                  *)
(***************************************************************************)
VARIABLES
    kind,             \* which table type was constructed
    overflow_checks,  \* build profile: usize overflow panics ("on") or wraps ("off");
                      \* "unset" until the first overflow, where it first matters
    len,              \* entries.len()
    index,            \* tag bytes, one per slot
    entries,          \* records, one per slot
    stats,            \* the table's statistics (Mutex<Stats> in the concurrent table)
    last,             \* single-threaded table: the last call and what it returned
    calls,            \* single-threaded table: calls made so far, by outcome
    counters,         \* concurrent table: sequence counters
    write,            \* concurrent table: holder of the write lock, 0 when free
    handles,          \* concurrent table: live-handle count
    stats_lock,       \* concurrent table: holder of the statistics lock, 0 when free
    hstate,           \* per handle: unused, alive, dropping, dead
    hstats,           \* per handle: private statistics
    local,            \* per handle: the call in progress and its local variables
    ret,              \* per handle: the last call and what it returned
    hcalls,           \* per handle: calls made so far, by outcome
    file,             \* what dump wrote to its writer, and what dump returned
    rest              \* what from_reader returned

vars == <<kind, overflow_checks, len, index, entries, stats, last, calls,
          counters, write, handles, stats_lock, hstate, hstats, local, ret, hcalls,
          file, rest>>

tableVars == <<index, entries>>

singleVars == <<last, calls>>

concVars == <<counters, write, handles, stats_lock, hstate, hstats, local, ret, hcalls>>

ioVars == <<file, rest>>

buildVars == <<kind, overflow_checks, len, ioVars>>

shapeVars == <<kind, len, ioVars>>

SingleLens == {7}

ConcurrentLens == {7, 49}

Slots == 0..(len - 1)

ENTRIES_PER_LOCK == 16

\* what a call returned
NoSlot == -1

PanicSlot == -2

\* `home` is history: the slot that held a stored record of the looked-up
\* signature when the lookup was called, NoSlot when there was none or when a
\* later store has overwritten that slot since
NoCall ==
    [op |-> "none", sig |-> U64(0), ent |-> DefaultEntry, res |-> "none",
     out |-> DefaultEntry, home |-> NoSlot]

LookupRet(h, r, home) ==
    [op |-> "lookup", sig |-> h, ent |-> DefaultEntry, res |-> r.res,
     out |-> r.out, home |-> home]

StoreRet(e, r) ==
    [op |-> "store", sig |-> hash(e), ent |-> e, res |-> r,
     out |-> DefaultEntry, home |-> NoSlot]

NoCalls == [lookup |-> 0, some |-> 0, store |-> 0, accepted |-> 0]

\* nothing dumped yet, nothing restored yet
NoFile == [res |-> "none", room |-> 0, seen |-> <<>>, bytes |-> <<>>]

NoRest == [version |-> 0, entries |-> U64(0), out |-> [res |-> "none"]]

\* calls of dump and from_reader made so far; a dump of the concurrent table
\* runs beside the handles' calls and takes two of the calls the bound allows
IoDone ==
    (IF file = NoFile THEN 0 ELSE IF kind = "concurrent" THEN 2 ELSE 1)
       + (IF rest = NoRest THEN 0 ELSE 1)

(***************************************************************************)
(* Probing.                                                                *)
(***************************************************************************)
\* `base + j` panics: overflow checks are on and the sum exceeds usize::MAX
ProbePanics(checks, h, j) == checks /\ AddOverflows(h, j)

\* the build profiles the run so far is consistent with
Builds == IF overflow_checks = "unset" THEN {"on", "off"} ELSE {overflow_checks}

\* the profile is known once an addition has overflowed
Built(b, overflowed) == IF overflowed THEN b ELSE overflow_checks

\* let i = (base + j) % self.entries.len()
Probe(h, j, m) == ModUsize(WrappingAdd(h, j), m)

\* the probe window the specification gives: {(h + j) mod len : 0 <= j < N}
Window(h, m) == {MathSlot(h, j, m) : j \in 0..(N - 1)}

(***************************************************************************)
(* TranspositionTable::lookup                                              *)
(***************************************************************************)
NotFound == [res |-> "none", out |-> DefaultEntry]

Found(e) == [res |-> "some", out |-> e]

Panicked == [res |-> "panic", out |-> DefaultEntry]

\* if self.index[i] != (h & 0xff) as u8 { continue; }
TagMatches(tag, h) == tag = LowByte(h)

\* a slip: the tag match is taken as proof of equality
EntryMatchesTagOnly(e, h) == valid(e)

\* if self.entries[i].valid() && self.entries[i].hash() == h
EntryMatches(e, h) == valid(e) /\ hash(e) = h

RECURSIVE LookupScan(_, _, _, _, _, _)
LookupScan(checks, idx, ents, m, h, j) ==
    IF j >= N THEN NotFound
    ELSE IF ProbePanics(checks, h, j) THEN Panicked
    ELSE LET i == Probe(h, j, m)
         IN  IF ~TagMatches(idx[i], h) THEN LookupScan(checks, idx, ents, m, h, j + 1)
             ELSE IF EntryMatches(ents[i], h) THEN Found(ents[i])
             ELSE LookupScan(checks, idx, ents, m, h, j + 1)

(***************************************************************************)
(* TranspositionTable::store: the victim scan and the write decision.      *)
(***************************************************************************)
\* a slip: the scan stops at a free slot only
EarlyExitInvalidOnly(occupant, e) == ~valid(occupant)

\* a slip: the signature test negated
EarlyExitOtherSignature(occupant, e) == ~valid(occupant) \/ hash(occupant) # hash(e)

\* if !self.entries[i].valid() || self.entries[i].hash() == ent.hash()
EarlyExit(occupant, e) == ~valid(occupant) \/ hash(occupant) = hash(e)

\* if self.entries[w].better_than(&self.entries[i]) { worst = Some(i); }
WorseThanWorst(ents, w, i) == better_than(ents[w], ents[i])

RECURSIVE VictimScan(_, _, _, _, _, _)
VictimScan(checks, ents, m, e, j, worst) ==
    IF j >= N THEN worst
    ELSE IF ProbePanics(checks, hash(e), j) THEN PanicSlot
    ELSE LET i == Probe(hash(e), j, m)
         IN  IF EarlyExit(ents[i], e) THEN i
             ELSE IF worst # NoSlot
                  THEN IF WorseThanWorst(ents, worst, i)
                       THEN VictimScan(checks, ents, m, e, j + 1, i)
                       ELSE VictimScan(checks, ents, m, e, j + 1, worst)
                  ELSE VictimScan(checks, ents, m, e, j + 1, i)

Victim(checks, ents, m, e) == VictimScan(checks, ents, m, e, 0, NoSlot)

\* a slip: the two records compared the wrong way round
AcceptsSwapped(occupant, e) == ~valid(occupant) \/ better_than(occupant, e)

\* if !self.entries[idx].valid() || ent.better_than(&self.entries[idx])
Accepts(occupant, e) == ~valid(occupant) \/ better_than(e, occupant)


\* a slip: the tag taken from the second byte of the signature
StoreTagSecondByte(e) == (hash(e)[4] \div 256) % 256

\* self.index[idx] = (ent.hash() & 0xff) as u8
StoreTag(e) == LowByte(hash(e))

\* a slip: every lookup is counted as a hit
CountLookupAsHit(st, r) == [st EXCEPT !.lookups = @ + 1, !.hits = @ + 1]

\* self.stats.lookups += 1, and self.stats.hits += 1 on a hit
CountLookup(st, r) ==
    [st EXCEPT !.lookups = @ + 1, !.hits = IF r.res = "some" THEN @ + 1 ELSE @]

\* self.stats.stores += 1
CountStore(st) == [st EXCEPT !.stores = @ + 1]

\* the calls made so far, by outcome (history, not program state)
NoteLookup(c, r) ==
    [c EXCEPT !.lookup = @ + 1, !.some = IF r.res = "some" THEN @ + 1 ELSE @]

NoteStore(c, r) ==
    [c EXCEPT !.store = @ + 1, !.accepted = IF r = "true" THEN @ + 1 ELSE @]

(***************************************************************************)
(* Construction: with_entries(len) of either table.                        *)
(***************************************************************************)
\* the handles that are ever requested or duplicated, one per thread
Handles == {1, 2}

Idle == [pc |-> "idle", sig |-> U64(0), ent |-> DefaultEntry, j |-> 0, i |-> 0,
         seq1 |-> 0, e |-> DefaultEntry, k |-> 0, home |-> NoSlot]

\* no store is part-way through overwriting slot s
Quiescent(s) ==
    ~\E w \in Handles : local[w].pc \in {"write", "inc2"} /\ local[w].i = s

\* the slot holding the record of the last completed store of signature h
Home(h) ==
    LET held == {s \in Slots : valid(entries[s]) /\ hash(entries[s]) = h /\ Quiescent(s)}
    IN  IF held = {} THEN NoSlot ELSE CHOOSE s \in held : \A t \in held : s <= t

Init ==
    /\ kind \in {"single", "concurrent"}
    /\ overflow_checks = "unset"
    /\ len \in (IF kind = "single" THEN SingleLens ELSE ConcurrentLens)
    /\ index = [i \in Slots |-> 0]
    /\ entries = [i \in Slots |-> DefaultEntry]
    /\ stats = ZeroStats
    /\ last = NoCall
    /\ calls = NoCalls
    /\ counters = [c \in 0..((len \div ENTRIES_PER_LOCK) - 1) |-> 0]
    /\ write = 0
    /\ handles = 0
    /\ stats_lock = 0
    /\ hstate = [h \in Handles |-> "unused"]
    /\ hstats = [h \in Handles |-> ZeroStats]
    /\ local = [h \in Handles |-> Idle]
    /\ ret = [h \in Handles |-> NoCall]
    /\ hcalls = [h \in Handles |-> NoCalls]
    /\ file = NoFile
    /\ rest = NoRest

(***************************************************************************)
(* The single-threaded table's operations.                                 *)
(***************************************************************************)
SingleMayCall == kind = "single" /\ calls.lookup + calls.store + IoDone < MaxOps

\* TranspositionTable::lookup(h)
Lookup(h) ==
    /\ SingleMayCall
    /\ \E b \in Builds :
         LET r == LookupScan(b = "on", index, entries, len, h, 0)
         IN  /\ stats' = CountLookup(stats, r)
             /\ last' = LookupRet(h, r, Home(h))
             /\ calls' = NoteLookup(calls, r)
             /\ overflow_checks' =
                    Built(b, LookupScan(TRUE, index, entries, len, h, 0).res = "panic")
    /\ UNCHANGED <<shapeVars, tableVars, concVars>>

\* TranspositionTable::store(ent)
Store(e) ==
    /\ SingleMayCall
    /\ \E b \in Builds :
         LET idx == Victim(b = "on", entries, len, e)
         IN  /\ overflow_checks' = Built(b, Victim(TRUE, entries, len, e) = PanicSlot)
             /\ IF idx = PanicSlot
                THEN /\ last' = StoreRet(e, "panic")
                     /\ calls' = NoteStore(calls, "panic")
                     /\ UNCHANGED <<tableVars, stats>>
                ELSE IF Accepts(entries[idx], e)
                THEN /\ index' = [index EXCEPT ![idx] = StoreTag(e)]
                     /\ entries' = [entries EXCEPT ![idx] = e]
                     /\ stats' = CountStore(stats)
                     /\ last' = StoreRet(e, "true")
                     /\ calls' = NoteStore(calls, "true")
                ELSE /\ last' = StoreRet(e, "false")
                     /\ calls' = NoteStore(calls, "false")
                     /\ UNCHANGED <<tableVars, stats>>
    /\ UNCHANGED <<shapeVars, concVars>>

SingleNext ==
    \/ \E h \in Sigs : Lookup(h)
    \/ \E e \in ValidEntries : Store(e)

(***************************************************************************)
(* ConcurrentTranspositionTable: handles.                                  *)
(***************************************************************************)
\* calls begun through handles so far
Begun(h) ==
    hcalls[h].lookup + hcalls[h].store + (IF local[h].pc = "idle" THEN 0 ELSE 1)

RECURSIVE SumOver(_, _)
SumOver(S, f) ==
    IF S = {} THEN 0
    ELSE LET x == CHOOSE y \in S : TRUE IN f[x] + SumOver(S \ {x}, f)

CallsBegun == SumOver(Handles, [h \in Handles |-> Begun(h)])

MayCall(h) ==
    /\ kind = "concurrent"
    /\ hstate[h] = "alive"
    /\ local[h].pc = "idle"
    /\ CallsBegun + IoDone < MaxCalls

\* handle ids are given out in order
NextUnused(h) ==
    /\ hstate[h] = "unused"
    /\ \A g \in Handles : g < h => hstate[g] # "unused"

\* self.handles.fetch_add(1, SeqCst)
Register(n) == n + 1

\* a slip: a release is counted twice
DeregisterTwice(n) == n - 2

\* self.table.handles.fetch_sub(1, SeqCst)
Deregister(n) == n - 1

\* stats: Default::default()
FreshStats == ZeroStats

\* a slip: the duplicate is a field-wise copy of handle g
CloneStatsCopied(g) == hstats[g]

\* the statistics a duplicate of handle g starts with: self.table.handle()
CloneStats(g) == FreshStats

\* ConcurrentTranspositionTable::handle
Handle(h) ==
    /\ kind = "concurrent"
    /\ NextUnused(h)
    /\ handles' = Register(handles)
    /\ hstate' = [hstate EXCEPT ![h] = "alive"]
    /\ hstats' = [hstats EXCEPT ![h] = FreshStats]
    /\ UNCHANGED <<buildVars, tableVars, stats, singleVars, counters, write,
                   stats_lock, local, ret, hcalls>>

\* Clone for ConcurrentTranspositionTableHandle: g is duplicated into h
Clone(g, h) ==
    /\ kind = "concurrent"
    /\ hstate[g] = "alive"
    /\ local[g].pc = "idle"
    /\ NextUnused(h)
    /\ handles' = Register(handles)
    /\ hstate' = [hstate EXCEPT ![h] = "alive"]
    /\ hstats' = [hstats EXCEPT ![h] = CloneStats(g)]
    /\ UNCHANGED <<buildVars, tableVars, stats, singleVars, counters, write,
                   stats_lock, local, ret, hcalls>>

\* Drop: let mut lk = self.table.stats.lock(); *lk = lk.merge(&self.stats);
DropMerge(h) ==
    /\ kind = "concurrent"
    /\ hstate[h] = "alive"
    /\ local[h].pc = "idle"
    /\ stats_lock = 0
    /\ stats_lock' = h
    /\ stats' = merge(stats, hstats[h])
    /\ hstate' = [hstate EXCEPT ![h] = "dropping"]
    /\ ret' = [ret EXCEPT ![h] = NoCall]
    /\ UNCHANGED <<buildVars, tableVars, singleVars, counters, write, handles,
                   hstats, local, hcalls>>

\* Drop: self.table.handles.fetch_sub(1, SeqCst); then lk goes out of scope
DropDeregister(h) ==
    /\ hstate[h] = "dropping"
    /\ stats_lock = h
    /\ handles' = Deregister(handles)
    /\ stats_lock' = 0
    /\ hstate' = [hstate EXCEPT ![h] = "dead"]
    /\ UNCHANGED <<buildVars, tableVars, stats, singleVars, counters, write,
                   hstats, local, ret, hcalls>>

(***************************************************************************)
(* ConcurrentTranspositionTable::lookup and entry, one shared-memory       *)
(* access per step.                                                        *)
(***************************************************************************)
\* the fields of a record, in the order they are copied
Fields == <<"hash", "valid", "depth">>

\* counters: new_default_slice(len / ENTRIES_PER_LOCK)
NumCounters == len \div ENTRIES_PER_LOCK

\* &self.counters[i % self.counters.len()]
CounterOf(i) == i % NumCounters

\* seq1 & 1 == 1
Odd(seq) == seq % 2 = 1

\* a slip: the second load of the counter is not compared
StableUnchecked(s1, s2) == TRUE

\* a slip: the two loads never compare equal
StableNever(s1, s2) == FALSE

\* if seq1 != seq2 { continue; }
Stable(s1, s2) == s1 = s2

\* a slip: the counter advances by two, so it is even while a store writes
FetchAddTwo(c) == c + 2

\* a slip: an odd counter is left as it is, so a store leaves it odd
FetchAddStuckOdd(c) == IF c % 2 = 1 THEN c ELSE c + 1

\* fetch_add(1): the counters stay far below 2^32 here
FetchAdd(c) == c + 1

\* the call of handle h returns r
Return(h, r) ==
    /\ ret' = [ret EXCEPT ![h] = r]
    /\ local' = [local EXCEPT ![h] = Idle]
    /\ hcalls' = [hcalls EXCEPT ![h] =
                    IF r.op = "lookup" THEN NoteLookup(@, r) ELSE NoteStore(@, r.res)]

\* the lookup of handle h goes on to slot j + 1, or ends with None
NextProbe(h) ==
    IF local[h].j + 1 >= N
    THEN Return(h, LookupRet(local[h].sig, NotFound, local[h].home))
    ELSE /\ local' = [local EXCEPT ![h].pc = "probe", ![h].j = @ + 1,
                                   ![h].e = DefaultEntry, ![h].k = 0, ![h].seq1 = 0]
         /\ UNCHANGED <<ret, hcalls>>

\* one pass of lookup's loop for handle h, from local state l:
\* let i = (base + j) % self.len; ptr::read(self.index[i].get())
ProbeStep(h, l) ==
    \E b \in Builds :
        /\ overflow_checks' = Built(b, AddOverflows(l.sig, l.j))
        /\ IF ProbePanics(b = "on", l.sig, l.j)
           THEN Return(h, LookupRet(l.sig, Panicked, l.home))
           ELSE IF ~TagMatches(index[Probe(l.sig, l.j, len)], l.sig)
           THEN IF l.j + 1 >= N
                THEN Return(h, LookupRet(l.sig, NotFound, l.home))
                ELSE /\ local' = [local EXCEPT ![h] =
                                    [l EXCEPT !.pc = "probe", !.j = @ + 1]]
                     /\ ret' = [ret EXCEPT ![h] = NoCall]
                     /\ UNCHANGED hcalls
           ELSE IF NumCounters = 0
           THEN Return(h, LookupRet(l.sig, Panicked, l.home))
           ELSE /\ local' = [local EXCEPT ![h] =
                               [l EXCEPT !.pc = "seq1", !.i = Probe(l.sig, l.j, len)]]
                /\ ret' = [ret EXCEPT ![h] = NoCall]
                /\ UNCHANGED hcalls

\* lookup is called: stats.lookups += 1, then the first pass of the loop
LookupCall(h, sig) ==
    /\ MayCall(h)
    /\ hstats' = [hstats EXCEPT ![h].lookups = @ + 1]
    /\ ProbeStep(h, [Idle EXCEPT !.pc = "probe", !.sig = sig, !.home = Home(sig)])
    /\ UNCHANGED <<shapeVars, tableVars, stats, singleVars, counters, write,
                   handles, stats_lock, hstate>>

\* a later pass of the loop
LookupProbe(h) ==
    /\ local[h].pc = "probe"
    /\ ProbeStep(h, local[h])
    /\ UNCHANGED <<shapeVars, tableVars, stats, singleVars, counters, write,
                   handles, stats_lock, hstate, hstats>>

\* let seq1 = counter.load(Acquire); odd: yield and load again
EntrySeq1(h) ==
    /\ local[h].pc = "seq1"
    /\ LET seq1 == counters[CounterOf(local[h].i)]
       IN  IF Odd(seq1)
           THEN local' = [local EXCEPT ![h].pc = "yield"]
           ELSE local' = [local EXCEPT ![h].pc = "read", ![h].seq1 = seq1,
                                       ![h].e = DefaultEntry, ![h].k = 0]
    /\ UNCHANGED <<buildVars, tableVars, stats, singleVars, counters, write,
                   handles, stats_lock, hstate, hstats, ret, hcalls>>

\* thread::yield_now(); continue
EntryYield(h) ==
    /\ local[h].pc = "yield"
    /\ local' = [local EXCEPT ![h].pc = "seq1"]
    /\ UNCHANGED <<buildVars, tableVars, stats, singleVars, counters, write,
                   handles, stats_lock, hstate, hstats, ret, hcalls>>

\* ptr::read_volatile(self.entries[i].get()), one field at a time
EntryRead(h) ==
    /\ local[h].pc = "read"
    /\ LET f == Fields[local[h].k + 1]
           e == [local[h].e EXCEPT ![f] = entries[local[h].i][f]]
       IN  local' = [local EXCEPT ![h].e = e, ![h].k = @ + 1,
                                  ![h].pc = IF local[h].k + 1 = Len(Fields)
                                            THEN "seq2" ELSE "read"]
    /\ UNCHANGED <<buildVars, tableVars, stats, singleVars, counters, write,
                   handles, stats_lock, hstate, hstats, ret, hcalls>>

\* let seq2 = counter.load(Relaxed); then lookup's test of the returned entry
EntrySeq2(h) ==
    /\ local[h].pc = "seq2"
    /\ LET seq2 == counters[CounterOf(local[h].i)]
           e == local[h].e
       IN  IF ~Stable(local[h].seq1, seq2)
           THEN /\ local' = [local EXCEPT ![h].pc = "seq1", ![h].e = DefaultEntry,
                                          ![h].k = 0, ![h].seq1 = 0]
                /\ UNCHANGED <<hstats, ret, hcalls>>
           ELSE IF EntryMatches(e, local[h].sig)
           THEN /\ hstats' = [hstats EXCEPT ![h].hits = @ + 1]
                /\ Return(h, LookupRet(local[h].sig, Found(e), local[h].home))
           ELSE /\ NextProbe(h)
                /\ UNCHANGED hstats
    /\ UNCHANGED <<buildVars, tableVars, stats, singleVars, counters, write,
                   handles, stats_lock, hstate>>

(***************************************************************************)
(* ConcurrentTranspositionTable::store                                     *)
(***************************************************************************)
\* store is called and self.write.lock() is granted; the victim scan and the
\* write decision read only memory that the lock holder alone writes.  A call
\* made while another handle holds the lock waits: it is not enabled.
StoreCall(h, e) ==
    /\ MayCall(h)
    /\ write = 0
    /\ \E b \in Builds :
         LET idx == Victim(b = "on", entries, len, e)
         IN  /\ overflow_checks' = Built(b, Victim(TRUE, entries, len, e) = PanicSlot)
             /\ IF idx = PanicSlot
                THEN Return(h, StoreRet(e, "panic")) /\ UNCHANGED write
                ELSE IF ~Accepts(entries[idx], e)
                THEN Return(h, StoreRet(e, "false")) /\ UNCHANGED write
                ELSE IF NumCounters = 0
                THEN Return(h, StoreRet(e, "panic")) /\ UNCHANGED write
                ELSE /\ write' = h
                     /\ local' = [local EXCEPT ![h] =
                                     [Idle EXCEPT !.pc = "inc1", !.ent = e, !.i = idx]]
                     /\ ret' = [ret EXCEPT ![h] = NoCall]
                     /\ UNCHANGED hcalls
    /\ UNCHANGED <<shapeVars, tableVars, stats, singleVars, counters,
                   handles, stats_lock, hstate, hstats>>

\* a slip: the tag and the record are written before the counter is raised
StoreInc1AfterWrite(h) ==
    /\ local[h].pc = "inc1"
    /\ index' = [index EXCEPT ![local[h].i] = StoreTag(local[h].ent)]
    /\ entries' = [entries EXCEPT ![local[h].i] = local[h].ent]
    /\ counters' = [counters EXCEPT ![CounterOf(local[h].i)] = FetchAdd(@)]
    /\ local' = [local EXCEPT ![h].pc = "tag"]
    /\ UNCHANGED <<buildVars, stats, singleVars, write,
                   handles, stats_lock, hstate, hstats, ret, hcalls>>

\* seq.fetch_add(1, Relaxed); fence(Release)
StoreInc1(h) ==
    /\ local[h].pc = "inc1"
    /\ counters' = [counters EXCEPT ![CounterOf(local[h].i)] = FetchAdd(@)]
    /\ local' = [local EXCEPT ![h].pc = "tag"]
    /\ UNCHANGED <<buildVars, tableVars, stats, singleVars, write,
                   handles, stats_lock, hstate, hstats, ret, hcalls>>

\* dump takes no lock: what a store's write of a tag or of a record field
\* adds to the values that the writer's copy of the slice, if one is in
\* progress, may give
Met(f, idx, ents) ==
    IF f.res = "tags"
    THEN [f EXCEPT !.seen = [i \in DOMAIN @ |-> @[i] \cup {idx[i]}]]
    ELSE IF f.res = "records"
    THEN [f EXCEPT !.seen =
             [i \in DOMAIN @ |->
                 [hash  |-> @[i].hash \cup {ents[i].hash},
                  valid |-> @[i].valid \cup {ents[i].valid},
                  depth |-> @[i].depth \cup {ents[i].depth}]]]
    ELSE f

\* ptr::write(self.index[idx].get(), (ent.hash() & 0xff) as u8)
StoreWriteTag(h) ==
    /\ local[h].pc = "tag"
    /\ index' = [index EXCEPT ![local[h].i] = StoreTag(local[h].ent)]
    /\ local' = [g \in Handles |->
                    IF g = h THEN [local[h] EXCEPT !.pc = "write", !.k = 0]
                    ELSE IF local[g].home = local[h].i
                    THEN [local[g] EXCEPT !.home = NoSlot]
                    ELSE local[g]]
    /\ file' = Met(file, index', entries)
    /\ UNCHANGED <<kind, overflow_checks, len, rest, entries, stats, singleVars,
                   counters, write, handles, stats_lock, hstate, hstats, ret, hcalls>>

\* ptr::write(self.entries[idx].get(), ent.clone()), one field at a time
StoreWriteField(h) ==
    /\ local[h].pc = "write"
    /\ LET f == Fields[local[h].k + 1]
       IN  entries' = [entries EXCEPT ![local[h].i][f] = local[h].ent[f]]
    /\ local' = [local EXCEPT ![h].k = @ + 1,
                              ![h].pc = IF local[h].k + 1 = Len(Fields)
                                        THEN "inc2" ELSE "write"]
    /\ file' = Met(file, index, entries')
    /\ UNCHANGED <<kind, overflow_checks, len, rest, index, stats, singleVars,
                   counters, write, handles, stats_lock, hstate, hstats, ret, hcalls>>

\* a slip: the guard of the write lock is not dropped on return
StoreInc2KeepsLock(h) ==
    /\ local[h].pc = "inc2"
    /\ counters' = [counters EXCEPT ![CounterOf(local[h].i)] = FetchAdd(@)]
    /\ hstats' = [hstats EXCEPT ![h] = CountStore(@)]
    /\ Return(h, StoreRet(local[h].ent, "true"))
    /\ UNCHANGED <<buildVars, tableVars, stats, singleVars, write,
                   handles, stats_lock, hstate>>

\* seq.fetch_add(1, Release); stats.stores += 1; true; the lock is released
StoreInc2(h) ==
    /\ local[h].pc = "inc2"
    /\ counters' = [counters EXCEPT ![CounterOf(local[h].i)] = FetchAdd(@)]
    /\ hstats' = [hstats EXCEPT ![h] = CountStore(@)]
    /\ write' = 0
    /\ Return(h, StoreRet(local[h].ent, "true"))
    /\ UNCHANGED <<buildVars, tableVars, stats, singleVars,
                   handles, stats_lock, hstate>>

ConcurrentNext ==
    \/ \E h \in Handles : Handle(h)
    \/ \E g, h \in Handles : Clone(g, h)
    \/ \E h \in Handles : DropMerge(h)
    \/ \E h \in Handles : DropDeregister(h)
    \/ \E h \in Handles, sig \in Sigs : LookupCall(h, sig)
    \/ \E h \in Handles : LookupProbe(h)
    \/ \E h \in Handles : EntrySeq1(h)
    \/ \E h \in Handles : EntryYield(h)
    \/ \E h \in Handles : EntryRead(h)
    \/ \E h \in Handles : EntrySeq2(h)
    \/ \E h \in Handles, e \in ValidEntries : StoreCall(h, e)
    \/ \E h \in Handles : StoreInc1(h)
    \/ \E h \in Handles : StoreWriteTag(h)
    \/ \E h \in Handles : StoreWriteField(h)
    \/ \E h \in Handles : StoreInc2(h)

(***************************************************************************)
(* dump and from_reader.  The stream is kept in units: the header is two   *)
(* 8-byte words, then one unit per tag byte, then one unit per raw record. *)
(***************************************************************************)
DUMPFILE_VERSION == 1

\* the words of Header { version, entries }
HeaderWords == 2

\* Header { version: DUMPFILE_VERSION, entries: self.entries.len() as u64 }
HeaderBytes(m) == <<DUMPFILE_VERSION, U64(m)>>

\* slice_as_bytes(&*self.index)
TagBytes(idx, m) == [k \in 1..m |-> idx[k - 1]]

\* slice_as_bytes(&*self.entries)
RecordBytes(ents, m) == [k \in 1..m |-> ents[k - 1]]

\* w.write(buf) on a writer with room for `room` more units: what it takes
Take(buf, room) == SubSeq(buf, 1, IF Len(buf) <= room THEN Len(buf) ELSE room)

\* the writers dump is given: byte buffers (&mut [u8]) with room for the
\* header only, for the header and the tags, and for the whole table
WriterRooms == {HeaderWords, HeaderWords + len, HeaderWords + 2 * len}

\* dump: three calls of w.write, the number of bytes each one took is dropped
DumpBytes(idx, ents, m, room) ==
    LET h == Take(HeaderBytes(m), room)
        t == Take(TagBytes(idx, m), room - Len(h))
        e == Take(RecordBytes(ents, m), room - Len(h) - Len(t))
    IN  h \o t \o e

\* dump(w) on the single-threaded table: w borrows nothing of the table, and
\* &self keeps every store and lookup out until dump has returned
Dump(room) ==
    /\ SingleMayCall
    /\ file = NoFile
    /\ file' = [res |-> "ok", room |-> room, seen |-> <<>>,
                bytes |-> DumpBytes(index, entries, len, room)]
    /\ UNCHANGED <<kind, overflow_checks, len, rest, tableVars, stats, singleVars,
                   concVars>>

\* ConcurrentTranspositionTable::dump takes no lock and no counter: it is
\* called in any state, and the handles go on between its three calls of
\* w.write and while the writer copies the slice it is given.
\* w.write(as_bytes(&header))
DumpCall(room) ==
    /\ kind = "concurrent"
    /\ file = NoFile
    /\ CallsBegun + IoDone + 1 < MaxCalls
    /\ file' = [res |-> "header", room |-> room, seen |-> <<>>,
                bytes |-> Take(HeaderBytes(len), room)]
    /\ UNCHANGED <<kind, overflow_checks, len, rest, tableVars, stats, singleVars,
                   concVars>>

\* the slots of a slice of len units that the writer copies: as many as it
\* has room for
Copied(f) ==
    LET room == f.room - Len(f.bytes)
    IN  0..((IF len <= room THEN len ELSE room) - 1)

\* the records a copy may put together from the fields it has met
Mixes(seen) ==
    [i \in DOMAIN seen |->
        [hash : seen[i].hash, valid : seen[i].valid, depth : seen[i].depth]]

\* the slices a copy that races with stores may give: in every slot one of
\* the values that the slot held while the copy was made
RECURSIVE Readings(_, _)
Readings(seen, todo) ==
    IF todo = {} THEN {[i \in DOMAIN seen |-> CHOOSE v \in seen[i] : TRUE]}
    ELSE LET i == CHOOSE x \in todo : TRUE
         IN  {[r EXCEPT ![i] = v] : r \in Readings(seen, todo \ {i}), v \in seen[i]}

Raced(seen) == Readings(seen, {i \in DOMAIN seen : Cardinality(seen[i]) > 1})

\* w.write(slice_as_bytes(&*self.index)) is called: the writer begins to copy
DumpTagsRead ==
    /\ file.res = "header"
    /\ file' = [file EXCEPT !.res = "tags",
                            !.seen = [i \in Copied(file) |-> {index[i]}]]
    /\ UNCHANGED <<kind, overflow_checks, len, rest, tableVars, stats, singleVars,
                   concVars>>

\* ... and returns with what it has taken
DumpTagsWrite ==
    /\ file.res = "tags"
    /\ \E t \in Raced(file.seen) :
          file' = [file EXCEPT
                      !.res = "tagged", !.seen = <<>>,
                      !.bytes = @ \o TagBytes(t, Cardinality(DOMAIN t))]
    /\ UNCHANGED <<kind, overflow_checks, len, rest, tableVars, stats, singleVars,
                   concVars>>

\* w.write(slice_as_bytes(&*self.entries)) is called: the writer begins to copy
DumpRecordsRead ==
    /\ file.res = "tagged"
    /\ file' = [file EXCEPT
                   !.res = "records",
                   !.seen = [i \in Copied(file) |->
                                [hash  |-> {entries[i].hash},
                                 valid |-> {entries[i].valid},
                                 depth |-> {entries[i].depth}]]]
    /\ UNCHANGED <<kind, overflow_checks, len, rest, tableVars, stats, singleVars,
                   concVars>>

\* ... and returns with what it has taken; Ok(())
DumpRecordsWrite ==
    /\ file.res = "records"
    /\ \E e \in Raced(Mixes(file.seen)) :
          file' = [file EXCEPT
                      !.res = "ok", !.seen = <<>>,
                      !.bytes = @ \o RecordBytes(e, Cardinality(DOMAIN e))]
    /\ UNCHANGED <<kind, overflow_checks, len, rest, tableVars, stats, singleVars,
                   concVars>>

\* the headers of the streams handed to from_reader: the one dump wrote, the
\* next version, and entry counts of 0, 2^30, 2^61 and 2^63
Versions == {DUMPFILE_VERSION, DUMPFILE_VERSION + 1}

Counts == {U64(0), <<0, 0, 16384, 0>>, <<8192, 0, 0, 0>>, <<32768, 0, 0, 0>>}

\* the memory the allocator can give, in bytes: 4 GiB and 64 GiB
Memories == {<<0, 1, 0, 0>>, <<0, 16, 0, 0>>}

\* mem::size_of::<E>() of the records the clients use
RecordSize == 16

\* n * k for a usize n, with the part above 64 bits in front
Scale(n, k) ==
    LET d4 == n[4] * k
        d3 == n[3] * k + d4 \div LimbBase
        d2 == n[2] * k + d3 \div LimbBase
        d1 == n[1] * k + d2 \div LimbBase
    IN  <<d1 \div LimbBase, d1 % LimbBase, d2 % LimbBase, d3 % LimbBase, d4 % LimbBase>>

\* the byte count is above isize::MAX: "capacity overflow"
CapacityOverflow(b) == b[1] > 0 \/ b[2] >= LimbBase \div 2

RECURSIVE LimbsLeq(_, _, _)
LimbsLeq(a, b, k) ==
    IF k > Len(a) THEN TRUE
    ELSE IF a[k] # b[k] THEN a[k] < b[k]
    ELSE LimbsLeq(a, b, k + 1)

\* b bytes are within the memory mem
Fits(b, mem) == b[1] = 0 /\ LimbsLeq(Tail(b), mem, 1)

\* with_entries(len): new_default_slice for the tags, then for the records;
\* an array above isize::MAX bytes panics, one the allocator does not give
\* aborts the process
with_entries(n, mem) ==
    IF CapacityOverflow(Scale(n, 1)) THEN "panic"
    ELSE IF ~Fits(Scale(n, 1), mem) THEN "abort"
    ELSE IF CapacityOverflow(Scale(n, RecordSize)) THEN "panic"
    ELSE IF ~Fits(Scale(n, 1 + RecordSize), mem) THEN "abort"
    ELSE "ok"

\* read_exact fails: the stream holds fewer than k * n units after its header
Short(bytes, n, k) ==
    \/ n[1] # 0 \/ n[2] # 0 \/ n[3] >= LimbBase \div 4
    \/ Len(bytes) - HeaderWords < k * (n[3] * LimbBase + n[4])

Eof == [res |-> "eof"]

\* "dumpfile version mismatch: expected {} got {}", after reading the header
Mismatch(got) ==
    [res |-> "mismatch", expected |-> DUMPFILE_VERSION, got |-> got, read |-> HeaderWords]

\* header.version != DUMPFILE_VERSION is false
VersionAccepted(v) == v = DUMPFILE_VERSION

\* Ok(table); the concurrent table adds from_table's fresh counters
Restored(bytes, m, conc) ==
    [res      |-> "ok",
     read     |-> HeaderWords + 2 * m,
     len      |-> m,
     index    |-> [i \in 0..(m - 1) |-> bytes[HeaderWords + 1 + i]],
     entries  |-> [i \in 0..(m - 1) |-> bytes[HeaderWords + m + 1 + i]],
     counters |-> IF conc THEN [c \in 0..((m \div ENTRIES_PER_LOCK) - 1) |-> 0]
                  ELSE << >>]

\* from_reader on the stream `bytes` where the allocator gives mem bytes
FromReader(bytes, conc, mem) ==
    IF Len(bytes) < HeaderWords THEN Eof
    ELSE IF ~VersionAccepted(bytes[1]) THEN Mismatch(bytes[1])
    ELSE LET n == bytes[2]
         IN  IF with_entries(n, mem) # "ok" THEN [res |-> with_entries(n, mem)]
             ELSE IF Short(bytes, n, 1) THEN Eof
             ELSE IF n = U64(0) THEN [res |-> "panic"]
             ELSE IF Short(bytes, n, 2) THEN Eof
             ELSE Restored(bytes, n[3] * LimbBase + n[4], conc)

\* the stream with version v and entry count n in its header
WithHeader(bytes, v, n) ==
    [k \in 1..Len(bytes) |-> IF k = 1 THEN v ELSE IF k = 2 THEN n ELSE bytes[k]]

\* from_reader(r) on the stream that dump wrote, with version v and entry
\* count n in its header
Restore(v, n, mem) ==
    /\ file.res = "ok"
    /\ rest = NoRest
    /\ Len(file.bytes) >= HeaderWords
    /\ n \in Counts \cup {file.bytes[2]}
    /\ rest' = [version |-> v, entries |-> n,
                out |-> FromReader(WithHeader(file.bytes, v, n), kind = "concurrent", mem)]
    /\ UNCHANGED <<kind, overflow_checks, len, file, tableVars, stats, singleVars,
                   concVars>>

IoNext ==
    \/ \E room \in WriterRooms : Dump(room)
    \/ \E room \in WriterRooms : DumpCall(room)
    \/ DumpTagsRead
    \/ DumpTagsWrite
    \/ DumpRecordsRead
    \/ DumpRecordsWrite
    \/ \E v \in Versions, n \in Counts \cup {U64(len)}, mem \in Memories : Restore(v, n, mem)

Next == SingleNext \/ ConcurrentNext \/ IoNext

Spec == Init /\ [][Next]_vars

\* the behaviours in which dump is called, and runs, with no store in progress
DumpRunning == file.res \notin {"none", "ok"}

QuietNext == Next /\ ((DumpRunning \/ DumpRunning') => (write = 0 /\ write' = 0))

QuietSpec == Init /\ [][QuietNext]_vars

(***************************************************************************)
(* Scheduling.  A thread that is inside a call keeps being scheduled: weak *)
(* fairness on the steps of the call it is in.  Nothing makes a thread     *)
(* begin a call.                                                           *)
(***************************************************************************)
\* the steps of handle h inside lookup
LookupSteps(h) ==
    LookupProbe(h) \/ EntrySeq1(h) \/ EntryYield(h) \/ EntryRead(h) \/ EntrySeq2(h)

\* the steps of handle h inside store, once it holds the write lock
StoreSteps(h) ==
    StoreInc1(h) \/ StoreWriteTag(h) \/ StoreWriteField(h) \/ StoreInc2(h)

\* the concurrent table and the calls made through its handles
ConcurrentInit == Init /\ kind = "concurrent"

ConcurrentSpec == ConcurrentInit /\ [][ConcurrentNext]_vars

\* the readers are scheduled, the writers may stop anywhere
ReadersFair == ConcurrentSpec /\ \A h \in Handles : WF_vars(LookupSteps(h))

\* the writers are scheduled, the readers may stop anywhere
WritersFair == ConcurrentSpec /\ \A h \in Handles : WF_vars(StoreSteps(h))

\* every thread inside a call is scheduled
FairSpec ==
    ConcurrentSpec /\ \A h \in Handles : WF_vars(LookupSteps(h)) /\ WF_vars(StoreSteps(h))

(***************************************************************************)
(* Claims.                                                                 *)
(***************************************************************************)
\* a store is between its two counter increments on slot s
Writing(s) ==
    \E w \in Handles : local[w].pc \in {"tag", "write", "inc2"} /\ local[w].i = s

\* a lookup that was called while a stored record of its signature was in
\* the table, and whose slot no later store has overwritten, found a record
\* of that signature
FindsStored(r) ==
    (r.op = "lookup" /\ r.home # NoSlot) => (r.res = "some" /\ hash(r.out) = r.sig)

\* C1: after store(e) has returned true, the next lookup(signature(e))
\* returns a record whose signature is signature(e); on the concurrent table
\* unless a later store has overwritten the slot that held e.
C1_LookupAfterStore ==
    /\ FindsStored(last)
    /\ \A h \in Handles : FindsStored(ret[h])

\* a handle's lookup on the concurrent table was called while a record of its
\* signature was stored, and returned the deeper record of that signature
C1_Witness ==
    /\ kind = "concurrent"
    /\ \E h \in Handles : /\ ret[h].op = "lookup"
                          /\ ret[h].home # NoSlot
                          /\ ret[h].res = "some"
                          /\ ret[h].out.depth = 2

\* the snapshot that entry(i) returns to handle h in this step
Returned(h) == local[h].pc = "seq2" /\ local'[h].pc \in {"idle", "probe"}

\* C2: no torn reads: every record that entry (and so lookup) returns is the
\* whole record held by the slot while no store is between its two counter
\* increments on that slot: the slot's initial value or what one single store
\* wrote, never a mix of two writes.
C2_NoTornRead ==
    [][\A h \in Handles :
          Returned(h) =>
             /\ local[h].e = entries[local[h].i]
             /\ ~Writing(local[h].i)
             /\ ret'[h].res = "some" => ret'[h].out = entries[local[h].i]]_vars

\* a record that is neither the initial value nor a record handed to store
Torn(e) == e # DefaultEntry /\ e \notin ValidEntries

\* a reader holds a torn snapshot and is about to load the counter again
C2_Witness ==
    \E h \in Handles : local[h].pc = "seq2" /\ Torn(local[h].e)

\* what lookup returned is not-found or a valid record of the signature asked
SoundLookup(r) ==
    (r.op = "lookup" /\ r.res = "some") => (valid(r.out) /\ hash(r.out) = r.sig)

\* C3: lookup(h) returns not-found or a valid record whose full signature is
\* h, on both tables; a slot whose tag matches but whose signature differs is
\* never returned, and the scan goes on to the rest of the window: not-found
\* on the single-threaded table means no probed slot holds a record of h.
C3_LookupChecksSignature ==
    /\ SoundLookup(last)
    /\ \A h \in Handles : SoundLookup(ret[h])
    /\ (last.op = "lookup" /\ last.res = "none") =>
          \A j \in 0..(N - 1) : ~EntryMatches(entries[Probe(last.sig, j, len)], last.sig)

\* a lookup went past a slot with a matching tag and another signature and
\* found its record in a later slot
C3_Witness ==
    /\ last.op = "lookup"
    /\ last.res = "some"
    /\ \E j \in 0..(N - 1) :
          LET i == Probe(last.sig, j, len)
          IN  /\ TagMatches(index[i], last.sig)
              /\ valid(entries[i])
              /\ hash(entries[i]) # last.sig

\* the build profiles the next state is consistent with
BuildsAfter ==
    IF overflow_checks' = "unset" THEN {TRUE, FALSE} ELSE {overflow_checks' = "on"}

\* this step is a call of store on the single-threaded table that follows a
\* call of store with the same signature
SecondStore ==
    /\ kind = "single"
    /\ calls' # calls
    /\ last.op = "store"
    /\ last'.op = "store"
    /\ last'.sig = last.sig

\* the slots holding a valid record of signature h
Occupied(ents, h) == {s \in DOMAIN ents : valid(ents[s]) /\ hash(ents[s]) = h}

\* this step is a call of store on the single-threaded table while no slot
\* holds a valid record
FirstStore ==
    /\ kind = "single"
    /\ calls' # calls
    /\ last'.op = "store"
    /\ \A s \in Slots : ~valid(entries[s])

\* C4: a and b valid with equal signature and a better than b: store(a) into
\* the new table returns true, and after any store(a) that returned true the
\* following store(b) returns false; the rejected store changes no tag and no
\* slot, and a lookup of the signature returns a.
C4_BetterThenWorse ==
    [][/\ FirstStore => (last'.res = "true" /\ Occupied(entries', last'.sig) # {})
       /\ (SecondStore /\ last.res = "true" /\ better_than(last.ent, last'.ent)) =>
             /\ last'.res = "false"
             /\ index' = index
             /\ entries' = entries
             /\ \A c \in BuildsAfter :
                   LookupScan(c, index', entries', len, last.sig, 0) = Found(last.ent)]_vars

\* store(b) was rejected and the better record of its signature is in place
C4_Witness ==
    /\ kind = "single"
    /\ last.op = "store"
    /\ last.res = "false"
    /\ calls.accepted >= 1
    /\ \E s \in Occupied(entries, last.sig) : better_than(entries[s], last.ent)

\* the statement of C5 as the specification words it: store(b) then store(a)
\* returns (false, true) whatever the table held, and a is the occupant
C5_RejectThenAccept ==
    [][(SecondStore /\ better_than(last'.ent, last.ent)) =>
          /\ last.res = "false"
          /\ last'.res = "true"
          /\ \E s \in Slots : entries'[s] = last'.ent]_vars

\* the record that handle h hands to the store it calls in this step
StoredBy(h) == IF local'[h].pc = "inc1" THEN local'[h].ent ELSE ret'[h].ent

\* handle h calls store(a) in this step, its previous call was store(b) of
\* the same signature, which returned true, and b is still in its slot
SecondStoreBy(h) ==
    /\ local[h].pc = "idle"
    /\ local'[h].pc = "inc1" \/ hcalls'[h].store = hcalls[h].store + 1
    /\ ret[h].op = "store"
    /\ ret[h].res = "true"
    /\ ret[h].sig = hash(StoredBy(h))
    /\ better_than(StoredBy(h), ret[h].ent)
    /\ \E s \in Slots : entries[s] = ret[h].ent

\* the single-threaded table's store(e) has just returned false
StoreRejected ==
    /\ kind = "single"
    /\ calls'.store = calls.store + 1
    /\ last'.res = "false"

\* the concurrent table's store by w has just returned false
RejectedBy(w) ==
    /\ local[w].pc = "idle"
    /\ hcalls'[w].store = hcalls[w].store + 1
    /\ ret'[w].res = "false"

\* the table holds a valid record that e is not better than
HoldsNoWorse(e) == \E s \in Slots : valid(entries[s]) /\ ~better_than(e, entries[s])

\* C5 (amended): a and b valid with equal signature and a better than b.
\* store(b) returns true, not false, when no slot of the table holds a valid
\* record; when store(b) returned true and b is still in its slot, the
\* following store(a) returns true, it overwrites b's slot, and a is then the
\* only record of that signature in the table.  A store returns false only
\* when the table holds a valid record, of whatever signature, that the
\* record it brings is not better than.
C5_AcceptThenAccept ==
    [][/\ FirstStore => last'.res = "true"
       /\ StoreRejected => HoldsNoWorse(last'.ent)
       /\ \A h \in Handles : RejectedBy(h) => HoldsNoWorse(ret'[h].ent)
       /\ (SecondStore /\ last.res = "true" /\ better_than(last'.ent, last.ent)) =>
             /\ last'.res = "true"
             /\ \E s \in Slots : /\ entries[s] = last.ent
                                 /\ entries'[s] = last'.ent
                                 /\ Occupied(entries', last.sig) = {s}
       /\ \A h \in Handles :
             SecondStoreBy(h) =>
                /\ local'[h].pc = "inc1"
                /\ entries[local'[h].i] = ret[h].ent
                /\ Occupied(entries, ret[h].sig) = {local'[h].i}
       /\ \A h \in Handles :
             (local[h].pc = "inc2" /\ local'[h].pc = "idle") =>
                /\ ret'[h].res = "true"
                /\ entries'[local[h].i] = local[h].ent
                /\ Occupied(entries', ret'[h].sig) = {local[h].i}]_vars

\* two stores were made, both were accepted, the second brought the deeper
\* record, and one slot is in use: the second store replaced the first
C5_Witness ==
    /\ kind = "single"
    /\ calls.store = 2
    /\ calls.accepted = 2
    /\ last.op = "store"
    /\ last.res = "true"
    /\ last.ent.depth = 2
    /\ Cardinality({s \in Slots : valid(entries[s])}) = 1

\* C6: probe-window locality: every valid record at slot i lies in the window
\* {(h + j) mod len : 0 <= j < N} of its signature h, and a lookup(h) that
\* returned a record found it in that window.
C6_WindowLocality ==
    /\ \A i \in Slots : valid(entries[i]) => i \in Window(hash(entries[i]), len)
    /\ (last.op = "lookup" /\ last.res = "some") =>
          \E i \in Window(last.sig, len) : entries[i] = last.out

\* C7: tag invariant: every slot whose record is valid carries the low byte
\* of that record's signature as its tag, in every state of the
\* single-threaded table, and in the concurrent table whenever the counter of
\* the slot's group is even (no store is between its two increments).
C7_TagInvariant ==
    \A i \in Slots :
        (valid(entries[i]) /\ (kind = "single" \/ ~Odd(counters[CounterOf(i)]))) =>
            index[i] = hash(entries[i])[4] % 256

\* a store on the concurrent table has written the tag of the record it
\* brings over a valid record with another tag, and the counter is odd
C7_Witness ==
    /\ kind = "concurrent"
    /\ \E i \in Slots : /\ valid(entries[i])
                        /\ Odd(counters[CounterOf(i)])
                        /\ index[i] # hash(entries[i])[4] % 256

\* a lookup of handle h is in progress
Looking(h) == local[h].pc \in {"probe", "seq1", "yield", "read", "seq2"}

\* the statistics that the calls counted in c amount to, with n lookups begun
\* and not yet returned
Performed(c, n) == [lookups |-> c.lookup + n, hits |-> c.some, stores |-> c.accepted]

\* statistics a is field-wise at most b
AtMost(a, b) == a.lookups <= b.lookups /\ a.hits <= b.hits /\ a.stores <= b.stores

StatsExact ==
    /\ stats.hits <= stats.lookups
    /\ kind = "single" => stats = Performed(calls, 0)
    /\ \A h \in Handles :
          /\ hstats[h].hits <= hstats[h].lookups
          /\ hstats[h] = Performed(hcalls[h], IF Looking(h) THEN 1 ELSE 0)

StatsMonotone ==
    /\ AtMost(stats, stats')
    /\ \A h \in Handles : AtMost(hstats[h], hstats'[h])

\* C8: statistics are exact and monotone: hits <= lookups in the table's, in
\* every handle's and in the shared statistics; lookups counts the lookup
\* calls made, hits those that returned a record, stores the store calls that
\* returned true; no counter ever decreases.
C8_StatsExactMonotone == []StatsExact /\ [][StatsMonotone]_vars

\* one handle has made a store that was accepted, a store that was rejected
\* and a lookup that returned a record
C8_Witness ==
    \E h \in Handles : /\ hcalls[h].store = 2
                       /\ hstats[h].stores = 1
                       /\ hstats[h].hits = 1

\* the handles that are registered and not yet deregistered
Live == {h \in Handles : hstate[h] \in {"alive", "dropping"}}

\* C9: the live-handle count equals the number of handles requested or
\* duplicated minus the number released, which is the number of handles
\* alive; a request or a duplication adds one, a release takes one away, and
\* the count never goes below zero.
C9_LiveHandleCount ==
    /\ handles = Cardinality(Live)
    /\ handles = Cardinality({h \in Handles : hstate[h] # "unused"})
                    - Cardinality({h \in Handles : hstate[h] = "dead"})
    /\ handles >= 0

\* one handle has been released while a second one is alive
C9_Witness ==
    /\ handles = 1
    /\ \E g, h \in Handles : hstate[g] = "dead" /\ hstate[h] = "alive"

\* the handles whose release has merged their statistics
Merged == {h \in Handles : hstate[h] \in {"dropping", "dead"}}

\* the field-wise sum of the operations performed through the handles of S
RECURSIVE PerformedBy(_)
PerformedBy(S) ==
    IF S = {} THEN ZeroStats
    ELSE LET h == CHOOSE g \in S : TRUE
         IN  merge(Performed(hcalls[h], 0), PerformedBy(S \ {h}))

\* C10: exactly-once merge: the shared statistics of the concurrent table are
\* the field-wise sum, over the released handles, of the operations performed
\* through each of them; handles still alive are not included, and a
\* duplicated handle brings nothing of its original; when the live-handle
\* count is zero they are the totals of all operations made through handles.
C10_MergeOnce ==
    kind = "concurrent" =>
        /\ stats = PerformedBy(Merged)
        /\ handles = 0 => stats = PerformedBy(Handles)

\* both handles have been released after one of them stored and looked up
C10_Witness ==
    /\ kind = "concurrent"
    /\ handles = 0
    /\ \A h \in Handles : hstate[h] = "dead"
    /\ stats.stores >= 1
    /\ stats.hits >= 1

\* the signatures of the records held by the slots of ents
Stored(ents) == {hash(ents[s]) : s \in {t \in DOMAIN ents : valid(ents[t])}}

\* this step is the return of dump
Dumped == file.res # "ok" /\ file'.res = "ok"

\* C11: dump/restore round trip: for a table with no store in progress,
\* from_reader on the bytes that dump wrote succeeds and gives a table of the
\* same capacity with the same tag and record in every slot, on which
\* lookup(h) returns what it returns on the original for every stored h.
C11_RoundTrip ==
    [][Dumped =>
          \A mem \in Memories :
              LET r == FromReader(file'.bytes, kind = "concurrent", mem)
              IN  /\ r.res = "ok"
                  /\ r.len = len
                  /\ r.index = index
                  /\ r.entries = entries
                  /\ \A h \in Stored(entries), c \in BuildsAfter :
                        LookupScan(c, r.index, r.entries, r.len, h, 0)
                           = LookupScan(c, index, entries, len, h, 0)]_vars

\* the stream handed to from_reader
Stream == WithHeader(file.bytes, rest.version, rest.entries)

\* it holds all that its header says it holds
Complete(bytes) == ~Short(bytes, bytes[2], 2)

\* C12: from_reader rejects a version mismatch: a header whose version is not
\* the written one gives an error carrying the expected and the observed
\* version, no table, and nothing read past the header; only the written
\* version gives a table, of the header's entry count, after the payload was
\* read; a payload shorter than that count requires gives an I/O error.
C12_VersionChecked ==
    rest # NoRest =>
        LET r == rest.out
        IN  /\ rest.version # DUMPFILE_VERSION =>
                  /\ r.res = "mismatch"
                  /\ r.expected = DUMPFILE_VERSION
                  /\ r.got = rest.version
                  /\ r.read = HeaderWords
                  /\ DOMAIN r \cap {"len", "index", "entries"} = {}
            /\ r.res = "ok" =>
                  /\ rest.version = DUMPFILE_VERSION
                  /\ U64(r.len) = rest.entries
                  /\ r.read = Len(file.bytes)
            /\ (rest.version = DUMPFILE_VERSION /\ ~Complete(Stream)) => r.res = "eof"

\* the contiguous group of 16 slots that slot i lies in
GroupOf(i) == i \div ENTRIES_PER_LOCK

\* a call through a handle ended in a panic where no addition overflowed
PanickedForCounter(r) ==
    /\ r.res = "panic"
    /\ \A j \in 0..(N - 1) : ~AddOverflows(r.sig, j)

\* C13: counter grouping: on the concurrent table two slots use the same
\* sequence counter exactly when they lie in the same contiguous group of 16
\* slots, and for every capacity the counter that a lookup or a store of a
\* slot uses exists.
C13_CounterGrouping ==
    kind = "concurrent" =>
        /\ NumCounters >= 1
        /\ \A i, j \in Slots : (CounterOf(i) = CounterOf(j)) <=> (GroupOf(i) = GroupOf(j))
        /\ \A h \in Handles : ~PanickedForCounter(ret[h])

\* handle h takes a step of the call it is in
Stepped(h) ==
    \/ local'[h].pc # local[h].pc
    \/ local'[h].j # local[h].j
    \/ local'[h].k # local[h].k

\* the statement of C14 as the specification words it: a thread inside
\* lookup finishes by its own steps, whatever the writers do or fail to do
C14_NeverWaits == \A h \in Handles : Looking(h) ~> ~Looking(h)

\* the steps of lookup take no lock, and a thread inside lookup always has a
\* step to take
LockFree ==
    \A h \in Handles :
        Looking(h) => ENABLED <<LookupSteps(h)>>_vars

LookupLeavesLocks ==
    \A h \in Handles :
        (Looking(h) /\ Stepped(h)) =>
            (write' = write /\ stats_lock' = stats_lock)

\* a thread inside lookup goes back to its first load of the counter only
\* when that load gave an odd value or when the second load gave another
\* value than the first
RetriesForWriter ==
    \A h \in Handles :
        LET c == counters[CounterOf(local[h].i)]
        IN  /\ (local[h].pc = "seq1" /\ local'[h].pc = "yield") => Odd(c)
            /\ (local[h].pc = "seq1" /\ local'[h].pc = "read") => ~Odd(c)
            /\ (local[h].pc = "seq2" /\ local'[h].pc = "seq1") => c # local[h].seq1
            /\ (local[h].pc = "seq2" /\ Stepped(h) /\ c = local[h].seq1) =>
                  local'[h].pc \in {"idle", "probe"}

\* no store is in progress
NoStore == write = 0

\* C14 (amended): lookup acquires no lock and always has a step of its own
\* to take, but it does wait for writers: it reads a slot again whenever the
\* counter of the slot's group is odd or has moved between its two loads, and
\* for no other reason; so a thread inside lookup, taking its own steps,
\* finishes once no store is in progress any more.
C14_WaitsOnlyForWriters ==
    /\ []LockFree
    /\ [][LookupLeavesLocks]_vars
    /\ [][RetriesForWriter]_vars
    /\ \A h \in Handles : (Looking(h) /\ []NoStore) ~> ~Looking(h)

\* a lookup has returned the record that another handle's store wrote, and
\* no store is in progress
C14_Witness ==
    \E h, w \in Handles :
        /\ h # w
        /\ ret[h].op = "lookup"
        /\ ret[h].res = "some"
        /\ local[h].pc = "idle"
        /\ ret[w].op = "store"
        /\ ret[w].res = "true"
        /\ ret[w].ent = ret[h].out
        /\ NoStore

\* a reader whose second load of the counter differs from the first reads
\* the slot again: it never gives up and it never returns what it read
AlwaysRetries ==
    \A h \in Handles :
        (local[h].pc = "seq2" /\ Stepped(h)
            /\ local[h].seq1 # counters[CounterOf(local[h].i)]) =>
                (local'[h].pc = "seq1" /\ local'[h].j = local[h].j)

\* C15: reader termination without a retry cap: with every thread inside a
\* call scheduled and finitely many stores issued, every lookup in flight
\* returns, having examined at most N slots; a slot read whose counter moved
\* is always tried again, there is no cap on the retries.
C15_LookupReturns ==
    /\ \A h \in Handles : Looking(h) ~> ~Looking(h)
    /\ [](\A h \in Handles : local[h].j < N)
    /\ [][AlwaysRetries]_vars

\* a store has completed since a reader loaded the counter: the reader is
\* about to find the counter moved and to read the slot again
C15_Witness ==
    \E h \in Handles :
        /\ local[h].pc = "seq2"
        /\ write = 0
        /\ counters[CounterOf(local[h].i)] >= local[h].seq1 + 2

\* handle h is inside store, holding the write lock
Storing(h) == local[h].pc \in {"inc1", "tag", "write", "inc2"}

\* the steps that store has left to take: two increments, the tag, the
\* fields of one record
Remaining(l) ==
    CASE l.pc = "inc1"  -> 3 + Len(Fields)
      [] l.pc = "tag"   -> 2 + Len(Fields)
      [] l.pc = "write" -> 1 + Len(Fields) - l.k
      [] l.pc = "inc2"  -> 1
      [] OTHER          -> 0

\* a writer that holds the lock always has a step to take, whatever the
\* readers are doing, and a call of store waits for nothing but the lock
WriterFree ==
    \A h \in Handles :
        /\ Storing(h) => (write = h /\ ENABLED <<StoreSteps(h)>>_vars)
        /\ (MayCall(h) /\ write = 0) => \A e \in ValidEntries : ENABLED StoreCall(h, e)

\* every step of a writer brings it nearer to its return
WriterAdvances ==
    \A h \in Handles :
        (Storing(h) /\ Stepped(h)) => Remaining(local'[h]) < Remaining(local[h])

\* C16: writers are never blocked by readers: store waits only for the write
\* lock; once it holds the lock it has a bounded number of its own steps left
\* (two increments, one tag, one record), each enabled whatever the readers
\* do, so with the writers scheduled every store returns and frees the lock.
C16_StoreReturns ==
    /\ []WriterFree
    /\ [][WriterAdvances]_vars
    /\ \A h \in Handles : Storing(h) ~> (~Storing(h) /\ write # h)

\* a store has returned true to a handle while the other handle is in the
\* middle of reading a slot
C16_Witness ==
    \E h, g \in Handles :
        /\ ret[h].op = "store"
        /\ ret[h].res = "true"
        /\ write = 0
        /\ local[g].pc \in {"read", "seq2", "yield"}

\* the handles between the two counter increments of a store
Between == {w \in Handles : local[w].pc \in {"tag", "write", "inc2"}}

\* the counters that are odd
OddCounters == {c \in DOMAIN counters : Odd(counters[c])}

CounterProtocol ==
    /\ Cardinality({w \in Handles : Storing(w)}) <= 1
    /\ \A w \in Handles : Storing(w) <=> write = w
    /\ OddCounters = {CounterOf(local[w].i) : w \in Between}
    /\ Cardinality(OddCounters) <= 1
    /\ write = 0 => OddCounters = {}

\* the first increment makes the victim's counter odd before the tag and the
\* record are written, the second makes it even after both are written, no
\* other step changes a counter, and no counter decreases
CounterSteps ==
    /\ \A c \in DOMAIN counters : counters'[c] >= counters[c]
    /\ \A w \in Handles :
          LET c == CounterOf(local[w].i)
          IN  /\ (local[w].pc = "inc1" /\ Stepped(w)) =>
                    /\ counters' = [counters EXCEPT ![c] = @ + 1]
                    /\ Odd(counters'[c])
                    /\ UNCHANGED tableVars
              /\ (local[w].pc \in {"tag", "write"} /\ Stepped(w)) =>
                    (counters' = counters /\ Odd(counters[c]))
              /\ (local[w].pc = "inc2" /\ Stepped(w)) =>
                    /\ counters' = [counters EXCEPT ![c] = @ + 1]
                    /\ ~Odd(counters'[c])
                    /\ index[local[w].i] = StoreTag(local[w].ent)
                    /\ entries[local[w].i] = local[w].ent
                    /\ UNCHANGED tableVars
                    /\ ret'[w].res = "true"
    /\ (\A w \in Handles : ~(Storing(w) /\ Stepped(w))) => counters' = counters

\* C17: sequence-counter protocol and writer exclusion: at most one thread is
\* inside store's critical section; a counter is odd exactly while the lock
\* holder is between its two increments for a slot of that group, so at most
\* one counter is odd and all are even when the lock is free; an accepted
\* store raises the victim's counter by two, to odd before the tag and the
\* record are written and to even after; counters never decrease.
C17_CounterProtocol == []CounterProtocol /\ [][CounterSteps]_vars

\* a second store to the same counter group is between its increments
C17_Witness ==
    \E w \in Handles :
        /\ local[w].pc = "write"
        /\ counters[CounterOf(local[w].i)] = 3

\* the first slot, in the order (h + j) mod len for j = 0 .. N - 1, that is
\* invalid or holds a record with e's signature; NoSlot when there is none
RECURSIVE FirstExit(_, _, _, _)
FirstExit(ents, m, e, j) ==
    IF j >= N THEN NoSlot
    ELSE IF EarlyExit(ents[MathSlot(hash(e), j, m)], e)
         THEN MathSlot(hash(e), j, m)
         ELSE FirstExit(ents, m, e, j + 1)

\* the single-threaded table's store(e) has just returned true
StoreAccepted == kind = "single" /\ calls'.accepted = calls.accepted + 1

\* the concurrent table's store by w has just chosen its victim and goes on
\* to write it
VictimChosen(w) == local[w].pc = "idle" /\ local'[w].pc = "inc1"

EarlyExitVictim ==
    /\ (StoreAccepted /\ FirstExit(entries, len, last'.ent, 0) # NoSlot) =>
          /\ entries' =
                [entries EXCEPT ![FirstExit(entries, len, last'.ent, 0)] = last'.ent]
          /\ \A i \in Slots :
                (valid(entries[i]) /\ hash(entries[i]) # hash(last'.ent)) =>
                    entries'[i] = entries[i]
    /\ \A w \in Handles :
          (VictimChosen(w) /\ FirstExit(entries, len, local'[w].ent, 0) # NoSlot) =>
              local'[w].i = FirstExit(entries, len, local'[w].ent, 0)

\* C18: victim selection, early exit: store(e) picks as victim the first slot
\* in probe order that is invalid or holds a record with e's signature, so
\* whenever e's probe window holds such a slot, store(e) modifies no slot
\* holding a valid record of a different signature.
C18_EarlyExitVictim == [][EarlyExitVictim]_vars

\* the slots of e's window that no slot of the window is strictly worse than
Worst(ents, m, e) ==
    {i \in Window(hash(e), m) :
        \A x \in Window(hash(e), m) : ~better_than(ents[i], ents[x])}

\* the first of them in the order (h + j) mod len for j = 0 .. N - 1
RECURSIVE FirstWorst(_, _, _, _)
FirstWorst(ents, m, e, j) ==
    IF j >= N THEN NoSlot
    ELSE IF MathSlot(hash(e), j, m) \in Worst(ents, m, e)
         THEN MathSlot(hash(e), j, m)
         ELSE FirstWorst(ents, m, e, j + 1)

\* every slot of e's window holds a valid record of another signature: the
\* scan of store(e) has no early exit
FullScan(ents, m, e) == FirstExit(ents, m, e, 0) = NoSlot

WorstOfN ==
    /\ (StoreAccepted /\ FullScan(entries, len, last'.ent)) =>
          LET i == FirstWorst(entries, len, last'.ent, 0)
          IN  /\ better_than(last'.ent, entries[i])
              /\ entries' = [entries EXCEPT ![i] = last'.ent]
    /\ StoreAccepted =>
          \A i \in Slots :
              (entries'[i] # entries[i] /\ valid(entries[i])
                 /\ hash(entries[i]) # hash(last'.ent)) =>
                  better_than(last'.ent, entries[i])
    /\ (StoreRejected /\ FullScan(entries, len, last'.ent)) =>
          \A x \in Window(last'.sig, len) : ~better_than(last'.ent, entries[x])
    /\ \A w \in Handles :
          /\ (VictimChosen(w) /\ FullScan(entries, len, local'[w].ent)) =>
                /\ local'[w].i = FirstWorst(entries, len, local'[w].ent, 0)
                /\ better_than(local'[w].ent, entries[local'[w].i])
          /\ (VictimChosen(w) /\ valid(entries[local'[w].i])
                /\ hash(entries[local'[w].i]) # hash(local'[w].ent)) =>
                better_than(local'[w].ent, entries[local'[w].i])
          /\ (RejectedBy(w) /\ FullScan(entries, len, ret'[w].ent)) =>
                \A x \in Window(ret'[w].sig, len) :
                    ~better_than(ret'[w].ent, entries[x])

\* C19: worst-of-N replacement: when store(e) scans all N candidates without
\* an early exit, the victim is the first slot in probe order among those
\* that no other slot of the window is strictly worse than; a valid record of
\* a different signature is overwritten only if e is better than it, and
\* store(e) is rejected only if e is better than no record of its window.
C19_WorstOfN == [][WorstOfN]_vars

\* the tags and the records differ from before in slot i at most, which
\* holds e and e's tag
WritesOnly(i, e) ==
    /\ index' = [index EXCEPT ![i] = hash(e)[4] % 256]
    /\ entries' = [entries EXCEPT ![i] = e]

\* the handle whose store is past its victim choice takes a step
WriterSteps(w) ==
    /\ local[w].pc \in {"inc1", "tag", "write", "inc2"}
    /\ Stepped(w)

StoreFrame ==
    /\ len' = len
    /\ StoreRejected => UNCHANGED <<index, entries, counters, stats>>
    /\ StoreAccepted =>
          /\ \E i \in Window(last'.sig, len) : WritesOnly(i, last'.ent)
          /\ stats'.stores = stats.stores + 1
          /\ counters' = counters
    /\ \A w \in Handles :
          /\ (RejectedBy(w) \/ VictimChosen(w)) =>
                /\ UNCHANGED <<index, entries, counters>>
                /\ hstats'[w].stores = hstats[w].stores
          /\ WriterSteps(w) =>
                /\ local[w].i \in Window(hash(local[w].ent), len)
                /\ \A i \in Slots \ {local[w].i} :
                      index'[i] = index[i] /\ entries'[i] = entries[i]
                /\ \A c \in DOMAIN counters \ {CounterOf(local[w].i)} :
                      counters'[c] = counters[c]
                /\ hstats'[w].stores =
                      hstats[w].stores + (IF local[w].pc = "inc2" THEN 1 ELSE 0)
          /\ (local[w].pc = "inc2" /\ Stepped(w)) =>
                /\ ret'[w].res = "true"
                /\ index[local[w].i] = hash(local[w].ent)[4] % 256
                /\ entries[local[w].i] = local[w].ent
    /\ (kind = "concurrent" /\ \A w \in Handles : ~WriterSteps(w)) =>
          UNCHANGED <<index, entries, counters>>

\* C20: frame of store: a rejected store leaves every tag, every record,
\* every sequence counter and the store counter unchanged; an accepted store
\* changes the tag and the record of exactly one slot, which lies in the
\* probe window of e's signature, leaves all other slots unchanged, raises
\* the store counter by one and, in the concurrent table, changes only that
\* slot's group counter; the capacity len never changes.
C20_StoreFrame == [][StoreFrame]_vars

\* the slots that hold a valid record
ValidSlots(ents) == {s \in DOMAIN ents : valid(ents[s])}

\* no two slots hold valid records with the same signature
KeyUnique ==
    \A s, t \in ValidSlots(entries) :
        hash(entries[s]) = hash(entries[t]) => s = t

\* a valid slot stays valid, and an accepted store of a signature that the
\* table holds overwrites the slot that holds it
OccupancySteps ==
    /\ ValidSlots(entries) \subseteq ValidSlots(entries')
    /\ Cardinality(ValidSlots(entries')) >= Cardinality(ValidSlots(entries))
    /\ (StoreAccepted /\ Occupied(entries, last'.sig) # {}) =>
          \E s \in Occupied(entries, last'.sig) :
              /\ entries' = [entries EXCEPT ![s] = last'.ent]
              /\ ValidSlots(entries') = ValidSlots(entries)
    /\ \A w \in Handles :
          (VictimChosen(w) /\ Occupied(entries, hash(local'[w].ent)) # {}) =>
              local'[w].i \in Occupied(entries, hash(local'[w].ent))

\* C21: key uniqueness and monotone occupancy: from an empty table and with
\* only valid records stored, no two slots hold valid records with the same
\* signature, and a slot that has become valid never becomes invalid again;
\* so the number of valid slots never decreases and a same-signature store
\* overwrites the one existing copy instead of creating a second one.
C21_KeyUniqueness == []KeyUnique /\ [][OccupancySteps]_vars

\* three stores were accepted, the last one over the copy of its own
\* signature, and two slots are valid
C21_Witness ==
    /\ last.op = "store"
    /\ last.res = "true"
    /\ calls.accepted = 3
    /\ Cardinality(ValidSlots(entries)) = 2
    /\ Occupied(entries, last.sig) # {}

=============================================================================
